---- MODULE Spec2Model ----
(***************************************************************************)
(* Model of the CRUD lessons of the repository:                            *)
(*   - the mongoose controller scripts (create.ts, read.ts, update.ts,     *)
(*     delete.ts) and the commander CLI (app.ts + controllers/Products.ts),*)
(*     all of which import db.ts first and then query one "products"       *)
(*     collection;                                                         *)
(*   - the file-backed CLI (cli.ts + crud.ts) over src/data/users.json;    *)
(*   - the Book controller (bookController.ts) over the Book model;        *)
(*   - the npm scripts prebuild, build, prestart and start.                *)
(* Each run of an entry point is one operating-system process; its         *)
(* position is a program counter, its console output and the points where  *)
(* it talks to the database are recorded in `events`.                      *)
(***************************************************************************)
EXTENDS Integers, Sequences, FiniteSets, TLC

(***************************************************************************)
(* Bounds of the model.                                                    *)
(***************************************************************************)
\* largest number of documents the modelled collection may hold
MaxProducts == 2
\* largest number of users the file-backed CLI creates
MaxCreates == 2
\* largest number of users stored before the create / get / delete session
MaxStored == 2
\* largest number of books addNewBook creates
MaxBooks == 2
\* largest number of builds npm starts
MaxBuilds == 3

(***************************************************************************)
(* Values.                                                                 *)
(***************************************************************************)
\* what parseInt / parseFloat / Number give for a string that is no number
NaN == -1

Names == {"Cap", "Boots", "T-Shirt"}
\* command-line strings given for <stock> and <price>
StockStrs == {"0", "20", "abc"}
PriceStrs == {"10", "abc"}

\* parseInt(stockStr): leading digits, NaN when there are none
ParseInt(s) ==
  CASE s = "0" -> 0
    [] s = "20" -> 20
    [] s = "10" -> 10
    [] OTHER -> NaN

\* parseFloat(priceStr) on the same strings; prices are counted in hundredths
ParseFloat(s) ==
  CASE s = "0" -> 0
    [] s = "20" -> 2000
    [] s = "10" -> 1000
    [] OTHER -> NaN

VARIABLES
  coll,        \* the products collection: documents in insertion order
  entry,       \* the entry point of the current process and its arguments
  pc,          \* position of the current process
  step,        \* index of the next statement of a controller script
  conn,        \* state of the mongoose connection of the current process
  events,      \* console output and database round trips of the current process
  exitCode,    \* exit status of the current process, NoExit while it lives
  collAtStart, \* the collection when the current process was started
  again,       \* the current process repeats the script that has just completed
  listed,      \* what the read script that has just completed listed as in stock
  owed         \* per name, what the native-driver CLI has reported: its adds and
               \* renames to the name less its deletes and renames of the name

dbvars == <<coll, entry, pc, step, conn, events, exitCode, collAtStart, again,
            listed, owed>>

VARIABLES
  dirExists,   \* the folder src/data exists
  file,        \* users.json: missing, empty (opened for writing), or JSON text
  proc,        \* the CLI processes: command, position, memory, output
  nextId,      \* how many ids randomUUID() has generated
  created,     \* ids of the users a completed createUser has returned
  deleted,     \* ids of the users a completed deleteUser has removed
  overlap      \* some process was started while another was still running

filevars == <<dirExists, file, proc, nextId, created, deleted, overlap>>

VARIABLES
  books,       \* the books collection: documents in insertion order
  bookCall,    \* the last call of a Book controller function and its outcome
  nextBook     \* how many ObjectIds the Book model has generated

bookvars == <<books, bookCall, nextBook>>

VARIABLES
  npm,         \* the npm invocation: its command, position, log, exit status
  dist,        \* the files of the dist folder, each with the build that wrote it
  sources,     \* the .ts files of the src folder
  builds       \* how many builds have been started

npmvars == <<npm, dist, sources, builds>>

vars == <<dbvars, filevars, bookvars, npmvars>>

\* exitCode while the process has not exited
NoExit == -1

(***************************************************************************)
(* The database: the Product model of product.model.ts.                    *)
(***************************************************************************)
\* updatedAt of a document, kept relative to the running process: the field
\* is absent, holds a date before the process was started, or the date of a
\* write of the process
NoDate == "none"
Earlier == "earlier"
ThisRun == "this_run"

Doc(name, stock, price, tags, updatedAt) ==
  [name |-> name, stock |-> stock, price |-> price, tags |-> tags,
   updatedAt |-> updatedAt]

\* the collection as the next process finds it: every date is in its past
Aged(c) ==
  [i \in 1..Len(c) |->
     [c[i] EXCEPT !.updatedAt = IF @ = ThisRun THEN Earlier ELSE @]]

\* the collection without the updatedAt fields
WithoutUpdatedAt(c) ==
  [i \in 1..Len(c) |-> [c[i] EXCEPT !.updatedAt = NoDate]]

\* a document as Product.create({ name, stock, price }) stores it under the
\* schema with timestamps: true
NewProduct(name, stock, price) == Doc(name, stock, price, << >>, ThisRun)

\* position of the first document with that name, 0 when there is none
IndexOfName(c, name) ==
  IF \E i \in 1..Len(c) : c[i].name = name
    THEN CHOOSE i \in 1..Len(c) :
           /\ c[i].name = name
           /\ \A j \in 1..(i - 1) : c[j].name # name
    ELSE 0

\* stock, price: { type: Number, required: true } - a NaN does not cast
CastFails(stock, price) == stock = NaN \/ price = NaN

\* Faulty variant, for comparison: the schema without unique: true
NoUniqueIndex(c, name, except) == FALSE

\* name: { unique: true } - another document already has that name
DuplicateName(c, name, except) ==
  \E i \in 1..Len(c) : i # except /\ c[i].name = name

\* Product.create(doc)
ProductCreate(c, doc) ==
  IF CastFails(doc.stock, doc.price) \/ DuplicateName(c, doc.name, 0)
    THEN [rejected |-> TRUE, found |-> FALSE, coll |-> c]
    ELSE [rejected |-> FALSE, found |-> FALSE, coll |-> Append(c, doc)]

\* Faulty variant, for comparison: findOneAndUpdate with { upsert: true }
FindOneAndUpsert(c, name, newName, stock, price) ==
  IF CastFails(stock, price)
    THEN [rejected |-> TRUE, found |-> FALSE, coll |-> c]
    ELSE [rejected |-> FALSE, found |-> FALSE,
          coll |-> Append(c, Doc(newName, stock, price, << >>, ThisRun))]

\* Product.findOneAndUpdate({ name }, { name: newName, stock, price }, { new: true })
FindOneAndUpdate(c, name, newName, stock, price) ==
  LET i == IndexOfName(c, name) IN
  IF CastFails(stock, price)
    THEN [rejected |-> TRUE, found |-> FALSE, coll |-> c]
  ELSE IF i = 0
    THEN [rejected |-> FALSE, found |-> FALSE, coll |-> c]
  ELSE IF DuplicateName(c, newName, i)
    THEN [rejected |-> TRUE, found |-> FALSE, coll |-> c]
  ELSE [rejected |-> FALSE, found |-> TRUE,
        coll |-> [c EXCEPT ![i] = [@ EXCEPT !.name = newName,
                                            !.stock = stock,
                                            !.price = price,
                                            !.updatedAt = ThisRun]]]

RemoveAt(c, i) == SubSeq(c, 1, i - 1) \o SubSeq(c, i + 1, Len(c))

\* Product.findOneAndDelete({ name })
FindOneAndDelete(c, name) ==
  LET i == IndexOfName(c, name) IN
  IF i = 0
    THEN [rejected |-> FALSE, found |-> FALSE, coll |-> c]
    ELSE [rejected |-> FALSE, found |-> TRUE, coll |-> RemoveAt(c, i)]

\* Product.deleteOne({ name })
DeleteOne(c, name) == FindOneAndDelete(c, name).coll

\* Faulty variant, for comparison: { stock: { $lt: 0 } }
DeleteManyBelowZero(c) ==
  SelectSeq(c, LAMBDA d : ~(d.stock # NaN /\ d.stock < 0))

\* Product.deleteMany({ stock: { $lte: 0 } })
DeleteManyOutOfStock(c) ==
  SelectSeq(c, LAMBDA d : ~(d.stock # NaN /\ d.stock <= 0))

\* Faulty variant, for comparison: { stock: { $gte: 0 } }
FindInStockOrZero(c) == SelectSeq(c, LAMBDA d : d.stock # NaN /\ d.stock >= 0)

\* Product.find({ stock: { $gt: 0 } })
FindInStock(c) == SelectSeq(c, LAMBDA d : d.stock # NaN /\ d.stock > 0)

\* the documents of create.ts, stored under the schema with updatedAt: false
TShirt == Doc("T-Shirt", 50, 1999, <<"clothing", "unisex">>, NoDate)

ManyProducts ==
  << Doc("Hoodie", 30, 3499, <<"clothing", "winter">>, NoDate),
     Doc("Sneakers", 20, 5999, <<"shoes", "sport">>, NoDate),
     Doc("Cap", 100, 1499, <<"accessory", "summer">>, NoDate) >>

\* how many of the documents an ordered insertMany stores: those before the
\* first one whose name the unique index refuses
InsertedCount(c, docs) ==
  LET dup(j) == DuplicateName(c \o SubSeq(docs, 1, j - 1), docs[j].name, 0) IN
  IF \E j \in 1..Len(docs) : dup(j)
    THEN (CHOOSE j \in 1..Len(docs) :
            dup(j) /\ \A k \in 1..(j - 1) : ~dup(k)) - 1
    ELSE Len(docs)

\* Faulty variant, for comparison: only the first document of the array is inserted
InsertFirst(c, docs) ==
  IF DuplicateName(c, docs[1].name, 0)
    THEN [rejected |-> TRUE, found |-> FALSE, coll |-> c]
    ELSE [rejected |-> FALSE, found |-> FALSE, coll |-> Append(c, docs[1])]

\* Product.insertMany(docs)
InsertMany(c, docs) ==
  LET n == InsertedCount(c, docs) IN
  [rejected |-> n < Len(docs), found |-> FALSE,
   coll |-> c \o SubSeq(docs, 1, n)]

HasTag(d, tag) == \E k \in 1..Len(d.tags) : d.tags[k] = tag

\* Faulty variant, for comparison: $push instead of $addToSet
PushTag(tags, tag) == Append(tags, tag)

\* { $addToSet: { tags: tag } }
AddToSet(tags, tag) ==
  IF \E k \in 1..Len(tags) : tags[k] = tag THEN tags ELSE Append(tags, tag)

\* the updatedAt an update leaves: mongoose sets it when the schema has it
Stamp(updatedAt, timestamps) == IF timestamps THEN ThisRun ELSE updatedAt

\* Faulty variant, for comparison: updateOne with { upsert: true }
UpdateOneUpsert(c, name, stock, timestamps) ==
  LET i == IndexOfName(c, name) IN
  IF i = 0
    THEN Append(c, Doc(name, stock, 0, << >>, NoDate))
    ELSE [c EXCEPT ![i] = [@ EXCEPT !.stock = stock,
                                    !.updatedAt = Stamp(@, timestamps)]]

\* Product.updateOne({ name }, { $set: { stock } })
UpdateOne(c, name, stock, timestamps) ==
  LET i == IndexOfName(c, name) IN
  IF i = 0
    THEN c
    ELSE [c EXCEPT ![i] = [@ EXCEPT !.stock = stock,
                                    !.updatedAt = Stamp(@, timestamps)]]

\* Product.updateMany({ tags: 'clothing' }, { $addToSet: { tags: 'sale' } })
UpdateManyClothing(c, timestamps) ==
  [i \in 1..Len(c) |->
     IF HasTag(c[i], "clothing")
       THEN [c[i] EXCEPT !.tags = AddToSet(@, "sale"),
                         !.updatedAt = Stamp(@, timestamps)]
       ELSE c[i]]

(***************************************************************************)
(* Entry points.                                                           *)
(***************************************************************************)
Entry(prog, cmd, name, newName, stockStr, priceStr) ==
  [prog |-> prog, cmd |-> cmd, name |-> name, newName |-> newName,
   stockStr |-> stockStr, priceStr |-> priceStr]

NoEntry == Entry("none", "", "", "", "", "")

\* npm run read / npm run delete
ScriptEntries == {Entry("script", cmd, "", "", "", "") : cmd \in {"read", "delete"}}

\* npm run create / npm run update; update0 is the update script of the
\* lesson whose schema has timestamps: true, which sets the stock to 0
SeedEntries ==
  {Entry("script", cmd, "", "", "", "") : cmd \in {"create", "update", "update0"}}

\* npm start add <name> <stock> <price>
AddEntries ==
  {Entry("cli", "add", n, "", s, p) :
     n \in Names, s \in StockStrs, p \in PriceStrs}

\* npm start add|list|update|delete ...; update3 is the update command of the
\* CLI variant without <newName>
CliEntries ==
       {Entry("cli", "add", n, "", s, p) :
          n \in Names, s \in StockStrs, p \in PriceStrs}
  \cup {Entry("cli", "list", "", "", "", "")}
  \cup {Entry("cli", "update", n, m, s, p) :
          n \in Names, m \in Names, s \in StockStrs, p \in PriceStrs}
  \cup {Entry("cli", "update3", n, n, s, p) :
          n \in Names, s \in StockStrs, p \in PriceStrs}
  \cup {Entry("cli", "delete", n, "", "", "") : n \in Names}

\* the product names given to the native-driver CLI
NativeNames == {"Cap", "Boots"}

\* the CLI on the native driver whose db.ts awaits client.connect() at top
\* level: npm start add|list|update|delete ..., update with <oldName> <newName>
NativeEntries ==
       {Entry("native", "add", n, "", s, "10") :
          n \in NativeNames, s \in {"20", "abc"}}
  \cup {Entry("native", "list", "", "", "", "")}
  \cup {Entry("native", "update", n, m, "20", "10") :
          n \in NativeNames, m \in NativeNames}
  \cup {Entry("native", "delete", n, "", "", "") : n \in NativeNames}

\* the CLI on the native driver whose db.ts connects inside an async function
\* it calls at once; its update takes <name> <stock> <price>
Native7Entries ==
       {Entry("native7", "add", n, "", s, "10") :
          n \in NativeNames, s \in {"20", "abc"}}
  \cup {Entry("native7", "list", "", "", "", "")}
  \cup {Entry("native7", "update", n, n, "20", "10") : n \in NativeNames}
  \cup {Entry("native7", "delete", n, "", "", "") : n \in NativeNames}

\* the controller scripts of the lesson whose db.ts connects inside an async
\* function it calls at once: npm run create|read|update|delete; one variant
\* of create.ts wraps its statements in such a function too, and update0 is
\* the variant of update.ts that sets the stock to 0
IifeScriptEntries ==
  {Entry("script_iife", cmd, "", "", "", "") :
     cmd \in {"create", "read", "update", "update0", "delete"}}

\* the entry point imports the db.ts that does not await its connection
UsesIife(e) == e.prog \in {"native7", "script_iife"}

\* Faulty variant, for comparison: the collection with a unique index on name
InsertOneUnique(c, name, stock, price) ==
  IF IndexOfName(c, name) # 0
    THEN c
    ELSE Append(c, Doc(name, stock, price, << >>, NoDate))

\* db.collection('products').insertOne({ name, stock, price, created_at }):
\* the collection has no index but _id and no schema, a NaN is stored as it is
InsertOne(c, name, stock, price) ==
  Append(c, Doc(name, stock, price, << >>, NoDate))

\* db.collection('products').updateOne({ name: oldName },
\*   { $set: { name: newName, stock, price, updated_at } }); matchedCount
NativeUpdateOne(c, oldName, newName, stock, price) ==
  LET i == IndexOfName(c, oldName) IN
  IF i = 0
    THEN [rejected |-> FALSE, found |-> FALSE, coll |-> c]
    ELSE [rejected |-> FALSE, found |-> TRUE,
          coll |-> [c EXCEPT ![i] = [@ EXCEPT !.name = newName,
                                              !.stock = stock,
                                              !.price = price,
                                              !.updatedAt = ThisRun]]]

\* db.collection('products').deleteOne({ name }); deletedCount
NativeDeleteOne(c, name) ==
  LET i == IndexOfName(c, name) IN
  IF i = 0
    THEN [rejected |-> FALSE, found |-> FALSE, coll |-> c]
    ELSE [rejected |-> FALSE, found |-> TRUE, coll |-> RemoveAt(c, i)]

\* the query the action of a command of the native-driver CLI awaits
NativeCall(e, c) ==
  CASE e.cmd = "add" ->
         [rejected |-> FALSE, found |-> FALSE,
          coll |-> InsertOne(c, e.name, ParseInt(e.stockStr),
                             ParseFloat(e.priceStr))]
    [] e.cmd = "update" ->
         NativeUpdateOne(c, e.name, e.newName, ParseInt(e.stockStr),
                         ParseFloat(e.priceStr))
    [] e.cmd = "delete" -> NativeDeleteOne(c, e.name)
    [] OTHER -> [rejected |-> FALSE, found |-> FALSE, coll |-> c]

\* the awaited statements of a controller script, each followed by its console.log
ScriptOps(cmd) ==
  CASE cmd = "read" ->
         << [op |-> "find", print |-> "all_products"],
            [op |-> "find", print |-> "clothing_products"],
            [op |-> "findInStock", print |-> "in_stock_products"],
            [op |-> "find", print |-> "price_range_products"] >>
    [] cmd = "delete" ->
         << [op |-> "deleteOneCap", print |-> "deleted_cap"],
            [op |-> "deleteManyOutOfStock", print |-> "deleted_out_of_stock"] >>
    [] cmd = "create" ->
         << [op |-> "createTShirt", print |-> ""],
            [op |-> "insertMany", print |-> "added_products"] >>
    [] cmd = "update" ->
         << [op |-> "setStock45", print |-> "stock_updated"],
            [op |-> "addSaleTag", print |-> "sale_tag_added"] >>
    [] cmd = "update0" ->
         << [op |-> "setStock0", print |-> "stock_updated"],
            [op |-> "addSaleTagStamped", print |-> "sale_tag_added"] >>
    [] OTHER -> << >>

\* the effect of one awaited statement of a script on the collection
ApplyOp(c, op) ==
  CASE op = "find" -> c
    [] op = "deleteOneCap" -> DeleteOne(c, "Cap")
    [] op = "deleteManyOutOfStock" -> DeleteManyOutOfStock(c)
    [] op = "createTShirt" -> ProductCreate(c, TShirt).coll
    [] op = "insertMany" -> InsertMany(c, ManyProducts).coll
    [] op = "setStock45" -> UpdateOne(c, "T-Shirt", 45, FALSE)
    [] op = "addSaleTag" -> UpdateManyClothing(c, FALSE)
    [] op = "setStock0" -> UpdateOne(c, "T-Shirt", 0, TRUE)
    [] op = "addSaleTagStamped" -> UpdateManyClothing(c, TRUE)
    [] OTHER -> c

\* Faulty variant, for comparison: a rejected statement is taken as fulfilled
OpNeverRejected(c, op) == FALSE

\* the awaited statement is rejected by the database
OpRejected(c, op) ==
  CASE op = "createTShirt" -> ProductCreate(c, TShirt).rejected
    [] op = "insertMany" -> InsertMany(c, ManyProducts).rejected
    [] OTHER -> FALSE

\* the call a CLI action makes on the controller
CliCall(e, c) ==
  CASE e.cmd = "add" ->
         ProductCreate(c, NewProduct(e.name, ParseInt(e.stockStr),
                                     ParseFloat(e.priceStr)))
    [] e.cmd \in {"update", "update3"} ->
         FindOneAndUpdate(c, e.name, e.newName, ParseInt(e.stockStr),
                          ParseFloat(e.priceStr))
    [] e.cmd = "delete" -> FindOneAndDelete(c, e.name)
    [] OTHER -> [rejected |-> FALSE, found |-> FALSE, coll |-> c]

\* what the controller prints once its query has resolved
CliPrint(e, r) ==
  CASE e.cmd = "add" -> "added"
    [] e.cmd = "list" -> "products"
    [] e.cmd \in {"update", "update3"} ->
         IF r.found THEN "updated" ELSE "product_not_found"
    [] e.cmd = "delete" -> IF r.found THEN "deleted" ELSE "product_not_found"
    [] OTHER -> ""

\* the native-driver CLI has added nothing yet
NoneOwed == [n \in Names |-> 0]

\* no read script has completed just before the current process
NoListing == [after |-> FALSE, docs |-> << >>]

(***************************************************************************)
(* The initial state: an empty collection and no process.                  *)
(***************************************************************************)
DbInit ==
  /\ coll = << >>
  /\ entry = NoEntry
  /\ pc = "none"
  /\ step = 1
  /\ conn = "none"
  /\ events = << >>
  /\ exitCode = NoExit
  /\ collAtStart = << >>
  /\ again = FALSE
  /\ listed = NoListing
  /\ owed = NoneOwed

\* no process is running any statement: none was started, the last one has
\* exited, or it is a CLI process that has nothing left to run
NoProcessRunning == pc \in {"none", "exited", "idle"}

\* node src/controllers/<cmd>.ts, or node src/app.ts <cmd> <args>
Start(e) ==
  /\ NoProcessRunning
  /\ e.cmd = "add" => Len(coll) < MaxProducts
  /\ entry' = e
  /\ pc' = "import_db"
  /\ step' = 1
  /\ conn' = "none"
  /\ events' = << >>
  /\ exitCode' = NoExit
  /\ coll' = Aged(coll)
  /\ collAtStart' = Aged(coll)
  /\ again' = (e.prog = "script" /\ e = entry /\ pc = "exited" /\ exitCode = 0)
  /\ listed' = IF entry.prog = "script" /\ entry.cmd = "read"
                   /\ pc = "exited" /\ exitCode = 0
                 THEN [after |-> TRUE, docs |-> Aged(listed.docs)]
                 ELSE NoListing
  /\ UNCHANGED <<owed, filevars, bookvars, npmvars>>

StartScript == \E e \in ScriptEntries : Start(e)

StartCli == \E e \in CliEntries : Start(e)

StartSeed == \E e \in SeedEntries : Start(e)

StartAdd == \E e \in AddEntries : Start(e)

\* Faulty variant, for comparison: the connection is started but not awaited
DbConnectNotAwaited ==
  /\ pc = "import_db"
  /\ pc' = "body"
  /\ conn' = "pending"
  /\ UNCHANGED <<coll, entry, step, events, exitCode, collAtStart, again, listed, owed, filevars, bookvars, npmvars>>

\* db.ts: await mongoose.connect(MONGO_URI) is issued
DbConnect ==
  /\ pc = "import_db"
  /\ ~UsesIife(entry)
  /\ pc' = "connecting"
  /\ conn' = "pending"
  /\ UNCHANGED <<coll, entry, step, events, exitCode, collAtStart, again, listed, owed, filevars, bookvars, npmvars>>

\* db.ts: the connection is established; console.log('Connected to MongoDB')
DbConnectOk ==
  /\ pc = "connecting"
  /\ conn' = "open"
  /\ events' = Append(events, "connected")
  /\ pc' = "body"
  /\ UNCHANGED <<coll, entry, step, exitCode, collAtStart, again, listed, owed, filevars, bookvars, npmvars>>

\* Faulty variant, for comparison: the catch block logs the error and does not exit
DbConnectErrNoExit ==
  /\ pc = "connecting"
  /\ conn' = "failed"
  /\ events' = Append(events, "connection_error")
  /\ pc' = "body"
  /\ UNCHANGED <<coll, entry, step, exitCode, collAtStart, again, listed, owed, filevars, bookvars, npmvars>>

\* db.ts: catch (err) { console.error(...); process.exit(1); }
DbConnectErr ==
  /\ pc = "connecting"
  /\ conn' = "failed"
  /\ events' = events \o <<"connection_error", "exit">>
  /\ exitCode' = 1
  /\ pc' = "exited"
  /\ UNCHANGED <<coll, entry, step, collAtStart, again, listed, owed, filevars, bookvars, npmvars>>

\* a controller script reaches its next await Product.<query>(...)
ScriptQuery ==
  /\ pc = "body"
  /\ entry.prog = "script"
  /\ step <= Len(ScriptOps(entry.cmd))
  /\ events' = Append(events, "query")
  /\ pc' = "awaiting"
  /\ UNCHANGED <<coll, entry, step, conn, exitCode, collAtStart, again, listed, owed, filevars, bookvars, npmvars>>

\* the awaited query has run on the database; the console.log after it
ScriptResolve ==
  /\ pc = "awaiting"
  /\ entry.prog = "script"
  /\ LET o == ScriptOps(entry.cmd)[step] IN
       /\ ~OpRejected(coll, o.op)
       /\ coll' = ApplyOp(coll, o.op)
       /\ events' = events \o <<"result">>
                      \o (IF o.print = "" THEN << >> ELSE <<o.print>>)
       /\ listed' = IF o.op = "findInStock"
                       THEN [after |-> FALSE, docs |-> FindInStock(coll)]
                       ELSE listed
  /\ step' = step + 1
  /\ pc' = "body"
  /\ UNCHANGED <<entry, conn, exitCode, collAtStart, again, owed, filevars, bookvars, npmvars>>

\* the awaited query is rejected: the top-level await throws, nothing
\* catches it, and node ends the process with exit status 1; what an ordered
\* insertMany stored before the rejected document stays stored
ScriptRejected ==
  /\ pc = "awaiting"
  /\ entry.prog = "script"
  /\ LET o == ScriptOps(entry.cmd)[step] IN
       /\ OpRejected(coll, o.op)
       /\ coll' = ApplyOp(coll, o.op)
  /\ events' = Append(events, "unhandled_rejection")
  /\ exitCode' = 1
  /\ conn' = "closed"
  /\ pc' = "exited"
  /\ UNCHANGED <<entry, step, collAtStart, again, listed, owed, filevars, bookvars, npmvars>>

\* the last statement of a controller script: process.exit()
ScriptExit ==
  /\ pc = "body"
  /\ entry.prog = "script"
  /\ step > Len(ScriptOps(entry.cmd))
  /\ events' = Append(events, "exit")
  /\ exitCode' = 0
  /\ conn' = "closed"
  /\ pc' = "exited"
  /\ UNCHANGED <<coll, entry, step, collAtStart, again, listed, owed, filevars, bookvars, npmvars>>

\* app.ts: program.parse() runs the action of the command, which calls the
\* controller; the controller runs up to its await
CliParse ==
  /\ pc = "body"
  /\ entry.prog = "cli"
  /\ events' = Append(events, "query")
  /\ pc' = "awaiting"
  /\ UNCHANGED <<coll, entry, step, conn, exitCode, collAtStart, again, listed, owed, filevars, bookvars, npmvars>>

\* the controller's query has run and is fulfilled: the controller prints;
\* app.ts has no statement left and never calls process.exit(), and the open
\* connection keeps the process alive
CliFulfilled ==
  /\ pc = "awaiting"
  /\ entry.prog = "cli"
  /\ LET r == CliCall(entry, coll) IN
       /\ ~r.rejected
       /\ coll' = r.coll
       /\ events' = events \o <<"result", CliPrint(entry, r)>>
  /\ pc' = "idle"
  /\ UNCHANGED <<entry, step, conn, exitCode, collAtStart, again, listed, owed, filevars, bookvars, npmvars>>

\* the controller's query is rejected: nothing awaits the controller's
\* promise, so node ends the process on the unhandled rejection
CliRejected ==
  /\ pc = "awaiting"
  /\ entry.prog = "cli"
  /\ CliCall(entry, coll).rejected
  /\ events' = Append(events, "unhandled_rejection")
  /\ exitCode' = 1
  /\ conn' = "closed"
  /\ pc' = "exited"
  /\ UNCHANGED <<coll, entry, step, collAtStart, again, listed, owed, filevars, bookvars, npmvars>>

StartNative == \E e \in NativeEntries : Start(e)

StartNative7 == \E e \in Native7Entries : Start(e)

StartIifeScript == \E e \in IifeScriptEntries : Start(e)

\* Faulty variant, for comparison: the import returns with the connection made
DbImportConnected ==
  /\ pc = "import_db"
  /\ UsesIife(entry)
  /\ pc' = "body"
  /\ conn' = "open"
  /\ events' = Append(events, "connected")
  /\ UNCHANGED <<coll, entry, step, exitCode, collAtStart, again, listed, owed, filevars, bookvars, npmvars>>

\* db.ts: the async function is called and runs up to its await of connect();
\* nothing awaits the promise it returns, and the importer runs on
DbImportIife ==
  /\ pc = "import_db"
  /\ UsesIife(entry)
  /\ pc' = "body"
  /\ conn' = "pending"
  /\ UNCHANGED <<coll, entry, step, events, exitCode, collAtStart, again, listed, owed, filevars, bookvars, npmvars>>

\* db.ts: the awaited connect() is fulfilled, which the event loop can tell
\* the function only once the module code of the entry point has run to its
\* first await or its end; console.log('Connected to MongoDB')
IifeConnected ==
  /\ UsesIife(entry)
  /\ conn = "pending"
  /\ pc = "awaiting"
  /\ conn' = "open"
  /\ events' = Append(events, "connected")
  /\ UNCHANGED <<coll, entry, pc, step, exitCode, collAtStart, again, listed, owed, filevars, bookvars, npmvars>>

\* db.ts: the awaited connect() is rejected: catch (err) { console.error(...);
\* process.exit(1); }
IifeConnectErr ==
  /\ UsesIife(entry)
  /\ conn = "pending"
  /\ pc = "awaiting"
  /\ conn' = "failed"
  /\ events' = events \o <<"connection_error", "exit">>
  /\ exitCode' = 1
  /\ pc' = "exited"
  /\ UNCHANGED <<coll, entry, step, collAtStart, again, listed, owed, filevars, bookvars, npmvars>>

\* the script reaches its next await
\* Product.<query>(...); mongoose buffers the query while it is not connected
IifeScriptQuery ==
  /\ pc = "body"
  /\ entry.prog = "script_iife"
  /\ step <= Len(ScriptOps(entry.cmd))
  /\ events' = Append(events, "query")
  /\ pc' = "awaiting"
  /\ UNCHANGED <<coll, entry, step, conn, exitCode, collAtStart, again, listed, owed, filevars, bookvars, npmvars>>

\* the awaited query has run on the open connection
IifeScriptResolve ==
  /\ pc = "awaiting"
  /\ entry.prog = "script_iife"
  /\ conn = "open"
  /\ LET o == ScriptOps(entry.cmd)[step] IN
       /\ ~OpRejected(coll, o.op)
       /\ coll' = ApplyOp(coll, o.op)
       /\ events' = events \o <<"result">>
                      \o (IF o.print = "" THEN << >> ELSE <<o.print>>)
  /\ step' = step + 1
  /\ pc' = "body"
  /\ UNCHANGED <<entry, conn, exitCode, collAtStart, again, listed, owed, filevars, bookvars, npmvars>>

\* the awaited query is rejected by the database: the promise of the script's
\* function is rejected, nothing handles it, node exits with status 1
IifeScriptRejected ==
  /\ pc = "awaiting"
  /\ entry.prog = "script_iife"
  /\ conn = "open"
  /\ LET o == ScriptOps(entry.cmd)[step] IN
       /\ OpRejected(coll, o.op)
       /\ coll' = ApplyOp(coll, o.op)
  /\ events' = Append(events, "unhandled_rejection")
  /\ exitCode' = 1
  /\ conn' = "closed"
  /\ pc' = "exited"
  /\ UNCHANGED <<entry, step, collAtStart, again, listed, owed, filevars, bookvars, npmvars>>

\* the buffered query is rejected because the connection is still pending
\* when mongoose's buffering time is over; nothing handles the rejection
IifeBufferTimeout ==
  /\ pc = "awaiting"
  /\ entry.prog = "script_iife"
  /\ conn = "pending"
  /\ events' = Append(events, "unhandled_rejection")
  /\ exitCode' = 1
  /\ conn' = "closed"
  /\ pc' = "exited"
  /\ UNCHANGED <<coll, entry, step, collAtStart, again, listed, owed, filevars, bookvars, npmvars>>

\* the last statement of the script: process.exit()
IifeScriptExit ==
  /\ pc = "body"
  /\ entry.prog = "script_iife"
  /\ step > Len(ScriptOps(entry.cmd))
  /\ events' = Append(events, "exit")
  /\ exitCode' = 0
  /\ conn' = "closed"
  /\ pc' = "exited"
  /\ UNCHANGED <<coll, entry, step, collAtStart, again, listed, owed, filevars, bookvars, npmvars>>

\* app.ts of the native-driver CLI: program.parse() runs the action of the
\* command up to its await of the query
NativeParse ==
  /\ pc = "body"
  /\ entry.prog \in {"native", "native7"}
  /\ events' = Append(events, "query")
  /\ pc' = "awaiting"
  /\ UNCHANGED <<coll, entry, step, conn, exitCode, collAtStart, again, listed, owed, filevars, bookvars, npmvars>>

\* the query has run on the connected client and the action prints; app.ts
\* never calls process.exit() and the open client keeps the process alive
NativeFulfilled ==
  /\ pc = "awaiting"
  /\ entry.prog \in {"native", "native7"}
  /\ conn = "open"
  /\ LET r == NativeCall(entry, coll) IN
       /\ coll' = r.coll
       /\ events' = events \o <<"result", CliPrint(entry, r)>>
       /\ owed' =
            CASE entry.cmd = "add" -> [owed EXCEPT ![entry.name] = @ + 1]
              [] entry.cmd = "delete" /\ r.found ->
                   [owed EXCEPT ![entry.name] = @ - 1]
              [] entry.cmd = "update" /\ r.found ->
                   [[owed EXCEPT ![entry.name] = @ - 1]
                      EXCEPT ![entry.newName] = @ + 1]
              [] OTHER -> owed
  /\ pc' = "idle"
  /\ UNCHANGED <<entry, step, conn, exitCode, collAtStart, again, listed, filevars, bookvars, npmvars>>

DbNext ==
  \/ StartScript
  \/ StartCli
  \/ DbConnect
  \/ DbConnectOk
  \/ DbConnectErr
  \/ ScriptQuery
  \/ ScriptResolve
  \/ ScriptExit
  \/ CliParse
  \/ CliFulfilled
  \/ CliRejected

(***************************************************************************)
(* The file-backed CLI: cli.ts and crud.ts over src/data/users.json.       *)
(***************************************************************************)
Procs == {1, 2}

Other(p) == 3 - p

\* the value of a name that is not given, and of a property that is not set
Undefined == "undefined"

\* the same for the age
UndefinedAge == -2

Fields == {"id", "firstName", "lastName", "age"}

Undef(k) == IF k = "age" THEN UndefinedAge ELSE Undefined

\* the ids randomUUID() returns, in the order of the calls
IdPool == <<"id1", "id2", "id3", "id4">>

\* an id no user has
NoSuchId == "no-such-id"

\* Number(ageStr)
Number(s) ==
  CASE s = "30" -> 30
    [] s = "31" -> 31
    [] s = Undefined -> NaN
    [] OTHER -> NaN

\* isNaN(age)
IsNaN(x) == x = NaN \/ x = UndefinedAge

\* !firstName
Falsy(s) == s = Undefined \/ s = ""

\* an object of type User in memory
User(id, firstName, lastName, age) ==
  [id |-> id, firstName |-> firstName, lastName |-> lastName, age |-> age]

NoUser == User(Undefined, Undefined, Undefined, UndefinedAge)

\* JSON.stringify(users, null, 2): a property whose value is undefined is left out
Stringify(users) ==
  [i \in 1..Len(users) |->
     [k \in {f \in Fields : users[i][f] # Undef(f)} |-> users[i][k]]]

\* JSON.parse(data): reading a property the text does not have gives undefined
Parse(json) ==
  [i \in 1..Len(json) |->
     [k \in Fields |-> IF k \in DOMAIN json[i] THEN json[i][k] ELSE Undef(k)]]

\* users.json as the file system holds it
Missing == [state |-> "missing", json |-> << >>]
Empty == [state |-> "empty", json |-> << >>]
Json(text) == [state |-> "json", json |-> text]

IdsOf(users) == {users[i].id : i \in 1..Len(users)}

\* users.findIndex((u) => u.id === id), counted from 1; 0 for -1
FindIndex(users, id) ==
  IF \E i \in 1..Len(users) : users[i].id = id
    THEN CHOOSE i \in 1..Len(users) :
           /\ users[i].id = id
           /\ \A j \in 1..(i - 1) : users[j].id # id
    ELSE 0

\* { ...user, ...updatedData }: every own property of updatedData, also one
\* whose value is undefined, replaces the property of user
Spread(user, updatedData) ==
  [k \in Fields |-> IF k \in DOMAIN updatedData THEN updatedData[k] ELSE user[k]]

\* what a crud function hands back: its return value, and the array it gives
\* to writeUsers when it calls it
Result(kind, user, write, users) ==
  [kind |-> kind, user |-> user, write |-> write, users |-> users]

\* Faulty variant, for comparison: the new user replaces the array instead of being pushed on it
CreateUserAlone(users, id, firstName, lastName, age) ==
  LET newUser == User(id, firstName, lastName, age) IN
  Result("user", newUser, TRUE, <<newUser>>)

\* Faulty variant, for comparison: users.unshift(newUser) instead of push
CreateUserUnshift(users, id, firstName, lastName, age) ==
  LET newUser == User(id, firstName, lastName, age) IN
  Result("user", newUser, TRUE, <<newUser>> \o users)

\* createUser(firstName, lastName, age), after readUsers() and randomUUID()
CreateUser(users, id, firstName, lastName, age) ==
  LET newUser == User(id, firstName, lastName, age) IN
  Result("user", newUser, TRUE, Append(users, newUser))

\* Faulty variant, for comparison: the array is reversed in place and written back
ListUsersReversed(users) ==
  Result("users", NoUser, TRUE,
         [i \in 1..Len(users) |-> users[Len(users) + 1 - i]])

\* listUsers(), after readUsers()
ListUsers(users) == Result("users", NoUser, FALSE, users)

\* Faulty variant, for comparison: readUsers()[0] instead of find by id
GetFirstUser(users, id) ==
  IF users = << >>
    THEN Result("undefined", NoUser, FALSE, users)
    ELSE Result("user", users[1], FALSE, users)

\* getUserById(id), after readUsers()
GetUserById(users, id) ==
  LET i == FindIndex(users, id) IN
  IF i = 0
    THEN Result("undefined", NoUser, FALSE, users)
    ELSE Result("user", users[i], FALSE, users)

\* Faulty variant, for comparison: an index of -1 is not checked, the first user is overwritten
UpdateUserUnchecked(users, id, updatedData) ==
  LET i == IF FindIndex(users, id) = 0 THEN 1 ELSE FindIndex(users, id) IN
  IF users = << >>
    THEN Result("null", NoUser, TRUE, users)
    ELSE LET u == Spread(users[i], updatedData) IN
         Result("user", u, TRUE, [users EXCEPT ![i] = u])

\* updateUser(id, updatedData), after readUsers()
UpdateUser(users, id, updatedData) ==
  LET i == FindIndex(users, id) IN
  IF i = 0
    THEN Result("null", NoUser, FALSE, users)
    ELSE LET u == Spread(users[i], updatedData) IN
         Result("user", u, TRUE, [users EXCEPT ![i] = u])

\* Faulty variant, for comparison: the first user is removed, whatever its id
DeleteUserShift(users, id) ==
  IF FindIndex(users, id) = 0
    THEN Result("false", NoUser, FALSE, users)
    ELSE Result("true", NoUser, TRUE, Tail(users))

\* deleteUser(id), after readUsers()
DeleteUser(users, id) ==
  LET filtered == SelectSeq(users, LAMBDA u : u.id # id) IN
  IF Len(users) = Len(filtered)
    THEN Result("false", NoUser, FALSE, users)
    ELSE Result("true", NoUser, TRUE, filtered)

(***************************************************************************)
(* cli.ts: the commands and what they print.                               *)
(***************************************************************************)
FileCmd(cmd, id, firstName, lastName, ageStr) ==
  [cmd |-> cmd, id |-> id, firstName |-> firstName, lastName |-> lastName,
   ageStr |-> ageStr]

NoCmd == FileCmd("none", Undefined, Undefined, Undefined, Undefined)

\* the ids given on the command line
IdArgs == {IdPool[i] : i \in 1..MaxCreates} \cup {NoSuchId}

\* update <id> <firstName> [<lastName> [<age>]]
UpdateArgs ==
  { <<"Jane", Undefined, Undefined>>,
    <<"Jane", "Roe", "31">>,
    <<"Jane", "Roe", "abc">> }

CreateCmds ==
  { FileCmd("create", Undefined, "John", "Doe", "30"),
    FileCmd("create", Undefined, "John", "Doe", "abc") }

FileCmds ==
       CreateCmds
  \cup {FileCmd("read", Undefined, Undefined, Undefined, Undefined)}
  \cup {FileCmd("get", i, Undefined, Undefined, Undefined) : i \in IdArgs}
  \cup {FileCmd("update", i, a[1], a[2], a[3]) : i \in IdArgs, a \in UpdateArgs}
  \cup {FileCmd("delete", i, Undefined, Undefined, Undefined) : i \in IdArgs}
  \cup {FileCmd("help", Undefined, Undefined, Undefined, Undefined)}

\* the commands of the two concurrent processes
RaceCmds ==
       {FileCmd("create", Undefined, "John", "Doe", "30")}
  \cup {FileCmd("delete", IdPool[i], Undefined, Undefined, Undefined) :
          i \in 1..MaxCreates}

\* case 'create': the arguments are refused
CreateRefused(c) ==
  Falsy(c.firstName) \/ Falsy(c.lastName) \/ IsNaN(Number(c.ageStr))

\* case 'update': the object handed to updateUser
UpdatedData(c) ==
  LET age == IF Falsy(c.ageStr) THEN UndefinedAge ELSE Number(c.ageStr) IN
  [firstName |-> c.firstName,
   lastName |-> c.lastName,
   age |-> IF IsNaN(age) THEN UndefinedAge ELSE age]

\* the crud function a command calls, on the array readUsers() returned
Call(c, users, id) ==
  CASE c.cmd = "create" ->
         CreateUser(users, id, c.firstName, c.lastName, Number(c.ageStr))
    [] c.cmd = "read" -> ListUsers(users)
    [] c.cmd = "get" -> GetUserById(users, c.id)
    [] c.cmd = "update" -> UpdateUser(users, c.id, UpdatedData(c))
    [] c.cmd = "delete" -> DeleteUser(users, c.id)
    [] OTHER -> ListUsers(users)

\* what the command prints about the value the crud function returned
CliOut(c, r) ==
  CASE c.cmd = "create" -> "created"
    [] c.cmd = "read" -> "all_users"
    [] c.cmd = "get" ->
         IF r.kind = "user" THEN "found" ELSE "user_not_found"
    [] c.cmd = "update" ->
         IF r.kind = "user" THEN "updated" ELSE "user_not_found"
    [] c.cmd = "delete" ->
         IF r.kind = "true" THEN "user_deleted" ELSE "user_not_found"
    [] OTHER -> ""

(***************************************************************************)
(* The processes of the file-backed CLI.                                   *)
(***************************************************************************)
\* what a shell session remembers of its earlier commands: the id and the
\* user a create printed, and users.json as that create found it
NoSession == [stage |-> "none", id |-> Undefined, user |-> NoUser,
              before |-> << >>]

InitProc ==
  [cmd |-> NoCmd, pc |-> "none", users |-> << >>, out |-> << >>,
   ret |-> "none", retUser |-> NoUser, err |-> "none",
   fsAtStart |-> [dir |-> FALSE, file |-> Missing],
   fileAtRead |-> Missing, crashedAt |-> "none", newId |-> Undefined,
   wrote |-> FALSE, session |-> NoSession]

\* the states of the file system a first run can find
FileInit ==
  /\ \E fs \in { <<FALSE, Missing>>, <<TRUE, Missing>>, <<TRUE, Json(<< >>)>> } :
       /\ dirExists = fs[1]
       /\ file = fs[2]
  /\ proc = [p \in Procs |-> InitProc]
  /\ nextId = 0
  /\ created = {}
  /\ deleted = {}
  /\ overlap = FALSE

\* the process is between its first and its last statement
Running(p) ==
  proc[p].pc \in {"exists", "mkdir", "init_open", "init_data", "read",
                  "w_open", "w_data"}

\* npm run dev <command> <args>: cli.ts up to the call of the crud function
FStart(p, c) ==
  /\ ~Running(p)
  /\ (c.cmd = "create" /\ ~CreateRefused(c)) => nextId < MaxCreates
  /\ proc' = [proc EXCEPT ![p] =
       [InitProc EXCEPT
          !.cmd = c,
          !.fsAtStart = [dir |-> dirExists, file |-> file],
          !.pc = IF (c.cmd = "create" /\ CreateRefused(c)) \/ c.cmd = "help"
                   THEN "done" ELSE "exists",
          !.out = IF c.cmd = "create" /\ CreateRefused(c)
                    THEN <<"usage_create">>
                  ELSE IF c.cmd = "help" THEN <<"available_commands">>
                  ELSE << >>]]
  /\ overlap' = (overlap \/ Running(Other(p)))
  /\ UNCHANGED <<dirExists, file, nextId, created, deleted, dbvars, bookvars, npmvars>>

\* ensureFile: if (!fs.existsSync(filePath))
FExists(p) ==
  /\ proc[p].pc = "exists"
  /\ proc' = [proc EXCEPT ![p].pc =
                IF file.state = "missing" THEN "mkdir" ELSE "read"]
  /\ UNCHANGED <<dirExists, file, nextId, created, deleted, overlap, dbvars, bookvars, npmvars>>

\* ensureFile: fs.mkdirSync('src/data'), which throws when the folder exists
FMkdir(p) ==
  /\ proc[p].pc = "mkdir"
  /\ IF dirExists
       THEN /\ proc' = [proc EXCEPT ![p].pc = "failed", ![p].err = "EEXIST"]
            /\ UNCHANGED dirExists
       ELSE /\ proc' = [proc EXCEPT ![p].pc = "init_open"]
            /\ dirExists' = TRUE
  /\ UNCHANGED <<file, nextId, created, deleted, overlap, dbvars, bookvars, npmvars>>

\* ensureFile: fs.writeFileSync(filePath, '[]') opens the file for writing
FInitOpen(p) ==
  /\ proc[p].pc = "init_open"
  /\ file' = Empty
  /\ proc' = [proc EXCEPT ![p].pc = "init_data"]
  /\ UNCHANGED <<dirExists, nextId, created, deleted, overlap, dbvars, bookvars, npmvars>>

\* ensureFile: fs.writeFileSync(filePath, '[]') writes the text
FInitData(p) ==
  /\ proc[p].pc = "init_data"
  /\ file' = Json(<< >>)
  /\ proc' = [proc EXCEPT ![p].pc = "read"]
  /\ UNCHANGED <<dirExists, nextId, created, deleted, overlap, dbvars, bookvars, npmvars>>

\* readUsers: fs.readFileSync and JSON.parse, then the crud function up to
\* its writeUsers, or to its return and the console.log of the command;
\* `after` is users.json as the read leaves it
ReadStep(p, after) ==
  /\ proc[p].pc = "read"
  /\ IF file.state # "json"
       THEN /\ proc' = [proc EXCEPT
                  ![p].pc = "failed",
                  ![p].err = IF file.state = "empty" THEN "SyntaxError"
                             ELSE "ENOENT"]
            /\ UNCHANGED nextId
       ELSE LET c == proc[p].cmd
                r == Call(c, Parse(file.json), IdPool[nextId + 1])
            IN
            /\ proc' = [proc EXCEPT
                  ![p].fileAtRead = file,
                  ![p].users = r.users,
                  ![p].ret = r.kind,
                  ![p].retUser = r.user,
                  ![p].newId = IF c.cmd = "create" THEN IdPool[nextId + 1]
                               ELSE Undefined,
                  ![p].pc = IF r.write THEN "w_open" ELSE "done",
                  ![p].out = IF r.write THEN << >> ELSE <<CliOut(c, r)>>]
            /\ nextId' = IF c.cmd = "create" THEN nextId + 1 ELSE nextId
  /\ file' = IF file.state # "json" THEN file ELSE after
  /\ UNCHANGED <<dirExists, created, deleted, overlap, dbvars, bookvars, npmvars>>

\* Faulty variant, for comparison: readUsers opens users.json with a flag that empties it
FReadTruncating(p) == ReadStep(p, Empty)

\* readUsers reads users.json and leaves it as it is
FRead(p) == ReadStep(p, file)

\* writeUsers: fs.writeFileSync opens users.json for writing, which empties it
FWriteOpen(p) ==
  /\ proc[p].pc = "w_open"
  /\ file' = Empty
  /\ proc' = [proc EXCEPT ![p].pc = "w_data", ![p].wrote = TRUE]
  /\ UNCHANGED <<dirExists, nextId, created, deleted, overlap, dbvars, bookvars, npmvars>>

\* writeUsers: fs.writeFileSync writes JSON.stringify(users, null, 2); the
\* crud function returns and the command prints
FWriteData(p) ==
  /\ proc[p].pc = "w_data"
  /\ file' = Json(Stringify(proc[p].users))
  /\ proc' = [proc EXCEPT
        ![p].pc = "done",
        ![p].out = <<CliOut(proc[p].cmd, [kind |-> proc[p].ret])>>]
  /\ created' = IF proc[p].cmd.cmd = "create"
                  THEN created \cup {proc[p].newId} ELSE created
  /\ deleted' = IF proc[p].cmd.cmd = "delete"
                  THEN deleted \cup {proc[p].cmd.id} ELSE deleted
  /\ UNCHANGED <<dirExists, nextId, overlap, dbvars, bookvars, npmvars>>

\* the process is killed between two of its statements
FCrash(p) ==
  /\ Running(p)
  /\ proc' = [proc EXCEPT ![p].pc = "crashed", ![p].crashedAt = proc[p].pc]
  /\ UNCHANGED <<dirExists, file, nextId, created, deleted, overlap, dbvars, bookvars, npmvars>>

(***************************************************************************)
(* The example session of the lesson: create a user, then get and delete   *)
(* the user with the id that create printed.                               *)
(***************************************************************************)
\* a user as users.json can hold it: written by create, by a full update,
\* or by an update that gave only the first name
StoredUsers(id) ==
  { [id |-> id, firstName |-> "John", lastName |-> "Doe", age |-> 30],
    [id |-> id, firstName |-> "Jane", lastName |-> "Roe", age |-> 31],
    [id |-> id, firstName |-> "Jane"] }

\* the arrays users.json holds when the session starts
StoredArrays ==
  UNION { { a \in [1..n -> UNION {StoredUsers(IdPool[i]) : i \in 1..n}] :
              \A i \in 1..n : a[i].id = IdPool[i] } : n \in 0..MaxStored }

SessionCreates ==
  { FileCmd("create", Undefined, "John", "Doe", "30"),
    FileCmd("create", Undefined, "Ann", "Lee", "31") }

SessionInit ==
  /\ dirExists = TRUE
  /\ \E a \in StoredArrays :
       /\ file = Json(a)
       /\ nextId = Len(a)
  /\ proc = [p \in Procs |-> InitProc]
  /\ created = {}
  /\ deleted = {}
  /\ overlap = FALSE

\* the next command of the session, and what the session remembers
SessionStep(q) ==
  CASE q.pc = "none" ->
         { [cmd |-> c, session |-> NoSession] : c \in SessionCreates }
    [] q.pc = "done" /\ q.cmd.cmd = "create" /\ q.ret = "user" ->
         { [cmd |-> FileCmd("get", q.newId, Undefined, Undefined, Undefined),
            session |-> [stage |-> "created", id |-> q.newId,
                         user |-> q.retUser, before |-> q.fileAtRead.json]] }
    [] q.pc = "done" /\ q.cmd.cmd = "get" ->
         { [cmd |-> FileCmd("delete", q.session.id, Undefined, Undefined,
                            Undefined),
            session |-> [q.session EXCEPT !.stage = "got"]] }
    [] OTHER -> {}

\* npm run dev <command> <args>, typed as the next command of the session
SessionStart(p) ==
  /\ ~Running(p)
  /\ \E n \in SessionStep(proc[p]) :
       proc' = [proc EXCEPT ![p] =
         [InitProc EXCEPT
            !.cmd = n.cmd,
            !.fsAtStart = [dir |-> dirExists, file |-> file],
            !.pc = "exists",
            !.session = n.session]]
  /\ UNCHANGED <<dirExists, file, nextId, created, deleted, overlap, dbvars, bookvars, npmvars>>

(***************************************************************************)
(* The Book controller: bookController.ts over the Book model.             *)
(***************************************************************************)
\* the ObjectIds the Book model generates, in the order of the creates
ObjectIdPool == <<"64b000000000000000000001", "64b000000000000000000002",
                  "64b000000000000000000003">>

\* a well-formed ObjectId no book has, and a string that is no ObjectId
UnusedObjectId == "64b0000000000000000000ff"
MalformedId == "1"

BookIdArgs ==
  {ObjectIdPool[i] : i \in 1..MaxBooks} \cup {UnusedObjectId, MalformedId}

\* the id casts to an ObjectId: 24 hexadecimal digits
CastsToObjectId(id) == id # MalformedId

\* bookData of addNewBook; a title that is missing fails required: true
BookDatas ==
  { [title |-> "Dune", author |-> "Herbert", publishedYear |-> 1965],
    [title |-> "", author |-> "Herbert", publishedYear |-> 1965] }

\* updatedData of updateBook; a NaN does not cast to Number
BookUpdates ==
  { [title |-> "Emma"],
    [publishedYear |-> NaN] }

BookIds(b) == {b[i]._id : i \in 1..Len(b)}

\* position of the book with that _id, 0 when there is none
IndexOfId(b, id) ==
  IF \E i \in 1..Len(b) : b[i]._id = id
    THEN CHOOSE i \in 1..Len(b) : b[i]._id = id
    ELSE 0

\* what a controller function does: it returns or throws, and the
\* collection it leaves
Outcome(threw, error, value, b) ==
  [threw |-> threw, error |-> error, value |-> value, books |-> b]

\* getAllBooks()
GetAllBooks(b) ==
  IF Len(b) = 0
    THEN Outcome(TRUE, "No books found", "", b)
    ELSE Outcome(FALSE, "", "books", b)

\* getBookById(id)
GetBookById(b, id) ==
  IF ~CastsToObjectId(id) THEN Outcome(TRUE, "CastError", "", b)
  ELSE IF IndexOfId(b, id) = 0 THEN Outcome(TRUE, "Book not found", "", b)
  ELSE Outcome(FALSE, "", "book", b)

\* addNewBook(bookData), with the _id the model generates
AddNewBook(b, id, bookData) ==
  IF bookData.title = "" \/ bookData.author = ""
    THEN Outcome(TRUE, "ValidationError", "", b)
    ELSE Outcome(FALSE, "", "book",
                 Append(b, [_id |-> id, title |-> bookData.title,
                            author |-> bookData.author,
                            publishedYear |-> bookData.publishedYear]))

\* updateBook(id, updatedData)
UpdateBook(b, id, updatedData) ==
  LET i == IndexOfId(b, id) IN
  IF ~CastsToObjectId(id) THEN Outcome(TRUE, "CastError", "", b)
  ELSE IF "publishedYear" \in DOMAIN updatedData
            /\ updatedData.publishedYear = NaN
    THEN Outcome(TRUE, "CastError", "", b)
  ELSE IF i = 0 THEN Outcome(TRUE, "Book not found", "", b)
  ELSE Outcome(FALSE, "", "book",
               [b EXCEPT ![i] =
                  [k \in DOMAIN b[i] |->
                     IF k \in DOMAIN updatedData THEN updatedData[k]
                     ELSE b[i][k]]])

\* Faulty variant, for comparison: the result of findByIdAndDelete is not checked
DeleteBookUnchecked(b, id) ==
  LET i == IndexOfId(b, id) IN
  IF ~CastsToObjectId(id) THEN Outcome(TRUE, "CastError", "", b)
  ELSE IF i = 0 THEN Outcome(FALSE, "", "Book deleted successfully", b)
  ELSE Outcome(FALSE, "", "Book deleted successfully", RemoveAt(b, i))

\* deleteBook(id)
DeleteBook(b, id) ==
  LET i == IndexOfId(b, id) IN
  IF ~CastsToObjectId(id) THEN Outcome(TRUE, "CastError", "", b)
  ELSE IF i = 0 THEN Outcome(TRUE, "Book not found", "", b)
  ELSE Outcome(FALSE, "", "Book deleted successfully", RemoveAt(b, i))

NoBookCall ==
  [fn |-> "none", id |-> "", threw |-> FALSE, error |-> "", value |-> "",
   before |-> << >>]

BookInit ==
  /\ books = << >>
  /\ bookCall = NoBookCall
  /\ nextBook = 0

\* a call of a controller function, awaited by its caller
CallBook(fn, id, o) ==
  /\ books' = o.books
  /\ bookCall' = [fn |-> fn, id |-> id, threw |-> o.threw, error |-> o.error,
                  value |-> o.value, before |-> books]
  /\ UNCHANGED <<dbvars, filevars, npmvars>>

CallGetAllBooks ==
  /\ CallBook("getAllBooks", "", GetAllBooks(books))
  /\ UNCHANGED nextBook

CallGetBookById ==
  /\ \E id \in BookIdArgs : CallBook("getBookById", id, GetBookById(books, id))
  /\ UNCHANGED nextBook

CallAddNewBook ==
  /\ nextBook < MaxBooks
  /\ \E d \in BookDatas :
       CallBook("addNewBook", "", AddNewBook(books, ObjectIdPool[nextBook + 1], d))
  /\ nextBook' = nextBook + 1

CallUpdateBook ==
  /\ \E id \in BookIdArgs, u \in BookUpdates :
       CallBook("updateBook", id, UpdateBook(books, id, u))
  /\ UNCHANGED nextBook

CallDeleteBook ==
  /\ \E id \in BookIdArgs : CallBook("deleteBook", id, DeleteBook(books, id))
  /\ UNCHANGED nextBook

BooksNext ==
  \/ CallGetAllBooks
  \/ CallGetBookById
  \/ CallAddNewBook
  \/ CallUpdateBook
  \/ CallDeleteBook

(***************************************************************************)
(* The npm scripts of package.json: prebuild, build, prestart, start.      *)
(***************************************************************************)
\* the modules the src folder can hold; app.ts is always there
SourceFiles == {"app", "logger", "old"}

SourceSets == {f \in SUBSET SourceFiles : "app" \in f}

\* `found` is the dist folder as the invocation found it
NoNpm == [cmd |-> "none", pc |-> "none", log |-> << >>, exit |-> NoExit,
          build |-> 0, found |-> {}]

NpmInit ==
  /\ npm = NoNpm
  /\ dist = {}
  /\ sources \in SourceSets
  /\ builds = 0

NpmIdle == npm.pc \in {"none", "done"}

\* a module is added to or removed from src between two invocations
EditSources ==
  /\ NpmIdle
  /\ \E f \in SourceSets : f # sources /\ sources' = f
  /\ UNCHANGED <<npm, dist, builds, dbvars, filevars, bookvars>>

\* npm start / npm run build is typed
NpmRun(cmd) ==
  /\ NpmIdle
  /\ builds < MaxBuilds
  /\ npm' = [cmd |-> cmd,
             pc |-> IF cmd = "start" THEN "prestart" ELSE "prebuild",
             log |-> << >>, exit |-> NoExit, build |-> builds + 1,
             found |-> dist]
  /\ builds' = builds + 1
  /\ UNCHANGED <<dist, sources, dbvars, filevars, bookvars>>

NpmStart == NpmRun("start")

NpmRunBuild == NpmRun("build")

\* "prestart": "npm run build"
Prestart ==
  /\ npm.pc = "prestart"
  /\ npm' = [npm EXCEPT !.pc = "prebuild", !.log = Append(@, "prestart")]
  /\ UNCHANGED <<dist, sources, builds, dbvars, filevars, bookvars>>

\* Faulty variant, for comparison: no prebuild script, dist is kept
PrebuildKeepsDist ==
  /\ npm.pc = "prebuild"
  /\ npm' = [npm EXCEPT !.pc = "build", !.log = Append(@, "prebuild")]
  /\ UNCHANGED <<dist, sources, builds, dbvars, filevars, bookvars>>

\* "prebuild": "rm -rf dist"
Prebuild ==
  /\ npm.pc = "prebuild"
  /\ dist' = {}
  /\ npm' = [npm EXCEPT !.pc = "build", !.log = Append(@, "prebuild")]
  /\ UNCHANGED <<sources, builds, dbvars, filevars, bookvars>>

\* the files tsc emits into dist, replacing those of the same name
Emitted ==
  {d \in dist : d.file \notin sources}
    \cup {[file |-> f, build |-> npm.build] : f \in sources}

\* "build": "tsc" compiles src into dist and exits with status 0; npm goes on
\* to the start script, or is done when only the build was asked for
BuildOk ==
  /\ npm.pc = "build"
  /\ dist' = Emitted
  /\ npm' = [npm EXCEPT
       !.log = Append(@, "build"),
       !.pc = IF npm.cmd = "start" THEN "start" ELSE "done",
       !.exit = IF npm.cmd = "start" THEN NoExit ELSE 0]
  /\ UNCHANGED <<sources, builds, dbvars, filevars, bookvars>>

\* "build": "tsc" reports type errors: it still emits, exits with status 2,
\* and npm stops with that status without running the start script
BuildFails ==
  /\ npm.pc = "build"
  /\ dist' = Emitted
  /\ npm' = [npm EXCEPT !.log = Append(@, "build_failed"), !.pc = "done",
                        !.exit = 2]
  /\ UNCHANGED <<sources, builds, dbvars, filevars, bookvars>>

\* "start": "node ... dist/app.js"
StartApp ==
  /\ npm.pc = "start"
  /\ npm' = [npm EXCEPT !.pc = "running", !.log = Append(@, "start")]
  /\ UNCHANGED <<dist, sources, builds, dbvars, filevars, bookvars>>

\* the app has logged its line and ends
AppExit ==
  /\ npm.pc = "running"
  /\ npm' = [npm EXCEPT !.pc = "done", !.exit = 0]
  /\ UNCHANGED <<dist, sources, builds, dbvars, filevars, bookvars>>

NpmNext ==
  \/ EditSources
  \/ NpmStart
  \/ NpmRunBuild
  \/ Prestart
  \/ Prebuild
  \/ BuildOk
  \/ BuildFails
  \/ StartApp
  \/ AppExit

(***************************************************************************)
(* The specifications.                                                     *)
(***************************************************************************)
\* no process of the file-backed CLI
FileQuiet ==
  /\ dirExists = FALSE
  /\ file = Missing
  /\ proc = [p \in Procs |-> InitProc]
  /\ nextId = 0
  /\ created = {}
  /\ deleted = {}
  /\ overlap = FALSE

\* the database entry points, one process at a time
\* neither the Book controller nor npm is used
ElseQuiet ==
  /\ BookInit
  /\ npm = NoNpm
  /\ dist = {}
  /\ sources = {"app"}
  /\ builds = 0

Init == DbInit /\ FileQuiet /\ ElseQuiet

Next == DbNext

Spec == Init /\ [][Next]_vars

\* the file-backed CLI, one process at a time, which may be killed
FileNext ==
  \/ \E c \in FileCmds : FStart(1, c)
  \/ FExists(1)
  \/ FMkdir(1)
  \/ FInitOpen(1)
  \/ FInitData(1)
  \/ FRead(1)
  \/ FWriteOpen(1)
  \/ FWriteData(1)
  \/ FCrash(1)

InitFile == DbInit /\ FileInit /\ ElseQuiet

SpecFile == InitFile /\ [][FileNext]_vars

\* the controller scripts create, read, update and delete, run one after
\* another on a collection that the add command has written to as well
ScriptsNext ==
  \/ StartScript
  \/ StartSeed
  \/ StartAdd
  \/ DbConnect
  \/ DbConnectOk
  \/ DbConnectErr
  \/ ScriptQuery
  \/ ScriptResolve
  \/ ScriptRejected
  \/ ScriptExit
  \/ CliParse
  \/ CliFulfilled
  \/ CliRejected

SpecScripts == Init /\ [][ScriptsNext]_vars

\* two processes of the file-backed CLI at the same time
RaceNext ==
  \E p \in Procs :
    \/ \E c \in RaceCmds : FStart(p, c)
    \/ FExists(p)
    \/ FMkdir(p)
    \/ FInitOpen(p)
    \/ FInitData(p)
    \/ FRead(p)
    \/ FWriteOpen(p)
    \/ FWriteData(p)

SpecRace == InitFile /\ [][RaceNext]_vars

\* the entry points that only read, next to those that fill the collection
\* and the file: the create and read scripts and the list command on the
\* database, create, read and get of the file-backed CLI
ReaderEntries ==
       {Entry("script", cmd, "", "", "", "") : cmd \in {"create", "read"}}
  \cup {Entry("cli", "list", "", "", "", "")}

ReaderCmds ==
       {FileCmd("create", Undefined, "John", "Doe", "30")}
  \cup {FileCmd("read", Undefined, Undefined, Undefined, Undefined)}
  \cup {FileCmd("get", i, Undefined, Undefined, Undefined) : i \in IdArgs}

StartReader == \E e \in ReaderEntries : Start(e)

ReadersNext ==
  \/ StartReader
  \/ DbConnect
  \/ DbConnectOk
  \/ DbConnectErr
  \/ ScriptQuery
  \/ ScriptResolve
  \/ ScriptRejected
  \/ ScriptExit
  \/ CliParse
  \/ CliFulfilled
  \/ \E c \in ReaderCmds : FStart(1, c)
  \/ FExists(1)
  \/ FMkdir(1)
  \/ FInitOpen(1)
  \/ FInitData(1)
  \/ FRead(1)
  \/ FWriteOpen(1)
  \/ FWriteData(1)

SpecReaders == InitFile /\ [][ReadersNext]_vars

\* one create / get / delete session over every stored array
SessionNext ==
  \/ SessionStart(1)
  \/ FExists(1)
  \/ FRead(1)
  \/ FWriteOpen(1)
  \/ FWriteData(1)

InitSession == DbInit /\ SessionInit /\ ElseQuiet

\* the functions of the Book controller, called one after another
SpecBooks == Init /\ [][BooksNext]_vars

\* npm start and npm run build, one invocation at a time
InitNpm == DbInit /\ FileQuiet /\ BookInit /\ NpmInit

SpecNpm == InitNpm /\ [][NpmNext]_vars

SpecSession == InitSession /\ [][SessionNext]_vars

(***************************************************************************)
(* Properties of the database entry points.                                *)
(***************************************************************************)
Has(e) == \E i \in 1..Len(events) : events[i] = e

Count(e) == Cardinality({i \in 1..Len(events) : events[i] = e})

\* the process has run its entry point as far as it goes
Finished == pc \in {"idle", "exited"}

\* the controller of a CLI command was called
Called(cmds) == entry.prog = "cli" /\ entry.cmd \in cmds /\ Has("query")

NamesOf(c) == {c[i].name : i \in 1..Len(c)}

\* C1: a failed connection attempt of db.ts is caught and ends the process
\* with exit status 1, and a process whose connection succeeded never takes
\* that exit.
C1_ConnectionErrorExits ==
  /\ conn = "failed" =>
        /\ pc = "exited"
        /\ exitCode = 1
        /\ Has("connection_error")
        /\ events[Len(events)] = "exit"
  /\ Has("connected") => conn # "failed" /\ ~Has("connection_error")
  /\ Has("connection_error") => conn = "failed"

C1_Witness == conn = "failed" /\ exitCode = 1 /\ pc = "exited"

\* C2: in a controller script that imports db.ts first, the events of a run
\* are ordered connect, queries, exit: every query comes after the connection
\* is established, none comes after a failed connection, and process.exit()
\* is reached only when every query of the script has completed.
C2_ConnectQueriesExit ==
  entry.prog = "script" =>
    /\ \A i \in 1..Len(events) :
         events[i] = "query" =>
           /\ \E j \in 1..(i - 1) : events[j] = "connected"
           /\ \A j \in 1..(i - 1) : events[j] # "connection_error"
    /\ Has("connection_error") => ~Has("query")
    /\ exitCode = 0 =>
         /\ Count("query") = Len(ScriptOps(entry.cmd))
         /\ Count("result") = Len(ScriptOps(entry.cmd))
         /\ events[Len(events)] = "exit"
         /\ Count("exit") = 1

C2_Witness ==
  /\ entry.prog = "script"
  /\ entry.cmd = "read"
  /\ exitCode = 0
  /\ Count("result") = 4

\* a statement of the current process (not the start of a new one)
ProcessStep ==
  \/ DbConnect
  \/ DbConnectOk
  \/ DbConnectErr
  \/ ScriptQuery
  \/ ScriptResolve
  \/ ScriptExit
  \/ CliParse
  \/ CliFulfilled
  \/ CliRejected

\* C3: every entry point runs to completion and then terminates the process:
\* a started process that has no statement left to run has exited.
C3_EveryEntryPointExits ==
  (entry.prog # "none" /\ ~ENABLED ProcessStep) => pc = "exited"

\* C4 as claimed: updateProduct and deleteProduct with a name that matches no
\* product print the warning, never the success message, and leave the
\* collection unchanged; with a name that matches they print the success
\* message and never the warning.
C4_WarningOrSuccess ==
  (Finished /\ Called({"update", "update3", "delete"})) =>
    LET success == Has("updated") \/ Has("deleted") IN
    IF IndexOfName(collAtStart, entry.name) = 0
      THEN Has("product_not_found") /\ ~success /\ coll = collAtStart
      ELSE success /\ ~Has("product_not_found")

\* the update of the current entry is one the mapper or the database rejects:
\* a stock or price that is no number, or a rename to another product's name
UpdateIsRejected ==
  /\ entry.cmd \in {"update", "update3"}
  /\ \/ ParseInt(entry.stockStr) = NaN
     \/ ParseFloat(entry.priceStr) = NaN
     \/ /\ entry.name \in NamesOf(collAtStart)
        /\ entry.newName # entry.name
        /\ entry.newName \in NamesOf(collAtStart)

\* C4, amended: an update that the mapper or the database rejects prints
\* neither message and leaves the collection unchanged; every other call
\* prints the warning alone and changes nothing when the name matches no
\* product, and the success message alone when it matches one.
C4_WarningOrSuccessUnlessRejected ==
  (Finished /\ Called({"update", "update3", "delete"})) =>
    LET success == Has("updated") \/ Has("deleted") IN
    IF UpdateIsRejected
      THEN /\ ~success
           /\ ~Has("product_not_found")
           /\ coll = collAtStart
           /\ exitCode = 1
    ELSE IF entry.name \notin NamesOf(collAtStart)
      THEN Has("product_not_found") /\ ~success /\ coll = collAtStart
      ELSE success /\ ~Has("product_not_found")

C4_Witness ==
  /\ Finished
  /\ Called({"update"})
  /\ collAtStart # << >>
  /\ entry.name \notin NamesOf(collAtStart)
  /\ Has("product_not_found")

\* the add or rename of the current entry would give two products one name
WouldDuplicate ==
  \/ entry.cmd = "add" /\ entry.name \in NamesOf(collAtStart)
  \/ /\ entry.cmd = "update"
     /\ entry.name \in NamesOf(collAtStart)
     /\ entry.newName # entry.name
     /\ entry.newName \in NamesOf(collAtStart)

\* C9: after any sequence of add, update and delete commands no two products
\* of the collection have the same name, and an add or a rename that would
\* produce a duplicate name is rejected and leaves the collection unchanged.
C9_UniqueNames ==
  /\ \A i, j \in 1..Len(coll) : i # j => coll[i].name # coll[j].name
  /\ (Finished /\ Called({"add", "update"}) /\ WouldDuplicate) =>
        /\ Has("unhandled_rejection")
        /\ ~Has("added")
        /\ ~Has("updated")
        /\ coll = collAtStart

C9_Witness ==
  /\ Finished
  /\ Called({"update"})
  /\ WouldDuplicate
  /\ ParseInt(entry.stockStr) # NaN
  /\ ParseFloat(entry.priceStr) # NaN
  /\ Has("unhandled_rejection")

(***************************************************************************)
(* Properties of the file-backed CLI.                                      *)
(***************************************************************************)
\* the ids of the users users.json holds
StoredIds == IF file.state = "json" THEN IdsOf(Parse(file.json)) ELSE {}

\* the command of a process changes the stored array when it succeeds
Mutating(q) ==
  /\ q.cmd.cmd \in {"create", "update", "delete"}
  /\ ~(q.cmd.cmd = "create" /\ CreateRefused(q.cmd))

\* C5 as claimed: a crash between the whole-file read and the whole-file
\* overwrite of createUser, updateUser or deleteUser loses all prior writes:
\* the users stored before the operation are no longer in the file.
C5_CrashLosesPriorWrites ==
  LET q == proc[1] IN
  (q.pc = "crashed" /\ q.crashedAt = "w_open" /\ Mutating(q)) =>
    \A id \in IdsOf(Parse(q.fileAtRead.json)) : id \notin StoredIds

\* C5, amended: a crash between the read and the overwrite leaves users.json
\* exactly as it was read, so the users stored before the operation are still
\* stored; they are lost only by a crash inside the overwrite, after the file
\* was opened for writing and before the new text is written.
C5_CrashKeepsPriorWrites ==
  LET q == proc[1] IN
  (q.pc = "crashed" /\ Mutating(q)) =>
    /\ q.crashedAt = "w_open" =>
         /\ file = q.fileAtRead
         /\ IdsOf(Parse(q.fileAtRead.json)) \subseteq StoredIds
    /\ q.crashedAt = "w_data" => file = Empty /\ StoredIds = {}

C5_Witness ==
  LET q == proc[1] IN
  /\ q.pc = "crashed"
  /\ q.crashedAt = "w_open"
  /\ Mutating(q)
  /\ q.fileAtRead.json # << >>
  /\ file = q.fileAtRead

\* both processes have finished a createUser, and the array each of them
\* read did not hold the user of the other: each read before the other wrote
BothReadBeforeEitherWrote ==
  /\ \A p \in Procs :
       /\ proc[p].pc = "done"
       /\ proc[p].cmd.cmd = "create"
       /\ proc[p].ret = "user"
  /\ proc[1].newId \notin IdsOf(proc[2].users)
  /\ proc[2].newId \notin IdsOf(proc[1].users)

\* C6: the helpers take no lock: when two createUser calls both read the
\* file before either writes, the later overwrite discards the earlier one
\* and only one of the two created users remains stored; when the processes
\* run strictly one at a time, every created user stays stored until it is
\* deleted.
C6_LostUpdateUnlessSequential ==
  /\ BothReadBeforeEitherWrote =>
       /\ file.state = "json"
       /\ Cardinality({proc[1].newId, proc[2].newId} \cap StoredIds) = 1
  /\ (~overlap /\ \A p \in Procs : proc[p].pc # "w_data") =>
       (created \ deleted) \subseteq StoredIds

C6_Witness ==
  /\ overlap
  /\ BothReadBeforeEitherWrote
  /\ Cardinality(created) = 2
  /\ deleted = {}
  /\ Cardinality(StoredIds) = 1

\* readUsers of the current command has returned
ReadUsersReturned(q) == q.ret # "none"

\* readUsers of the current command has thrown
ReadUsersThrew(q) == q.pc = "failed"

\* C7: whether the data folder and users.json exist or not, readUsers
\* completes without error, afterwards users.json exists and holds a JSON
\* array, and the text of a file that existed is not overwritten.
C7_ReadUsersCreatesFile ==
  LET q == proc[1] IN
  q.fsAtStart.file.state \in {"missing", "json"} =>
    /\ ~ReadUsersThrew(q)
    /\ ReadUsersReturned(q) =>
         /\ q.fileAtRead.state = "json"
         /\ q.fsAtStart.file.state = "json" => q.fileAtRead = q.fsAtStart.file

\* C8: update allows partial updates: only the fields the command supplies
\* change, the fields it omits (and an age that is no number) keep their
\* stored values, and all other users are unchanged.
C8_PartialUpdate ==
  LET q == proc[1] IN
  (q.pc = "done" /\ q.cmd.cmd = "update" /\ q.ret = "user"
     /\ file.state = "json") =>
    LET old == Parse(q.fileAtRead.json)
        new == Parse(file.json)
        i == FindIndex(old, q.cmd.id)
        age == Number(q.cmd.ageStr)
    IN
    /\ Len(new) = Len(old)
    /\ \A j \in 1..Len(old) : j # i => new[j] = old[j]
    /\ new[i].id = old[i].id
    /\ new[i].firstName = IF q.cmd.firstName # Undefined
                            THEN q.cmd.firstName ELSE old[i].firstName
    /\ new[i].lastName = IF q.cmd.lastName # Undefined
                           THEN q.cmd.lastName ELSE old[i].lastName
    /\ new[i].age = IF ~IsNaN(age) THEN age ELSE old[i].age

\* C10: get, update and delete with an id that matches no stored user print
\* 'User not found'; updateUser returns null and deleteUser returns false
\* without writing the file, and the stored array is unchanged.
C10_UserNotFound ==
  LET q == proc[1] IN
  (/\ q.pc \in {"done", "failed"}
   /\ q.cmd.cmd \in {"get", "update", "delete"}
   /\ q.fsAtStart.file.state = "json"
   /\ q.cmd.id \notin IdsOf(Parse(q.fsAtStart.file.json))) =>
    /\ q.pc = "done"
    /\ q.out = <<"user_not_found">>
    /\ q.ret = CASE q.cmd.cmd = "get" -> "undefined"
                 [] q.cmd.cmd = "update" -> "null"
                 [] OTHER -> "false"
    /\ ~q.wrote
    /\ file = q.fsAtStart.file

C10_Witness ==
  LET q == proc[1] IN
  /\ q.pc = "done"
  /\ q.cmd.cmd = "update"
  /\ q.fsAtStart.file.state = "json"
  /\ q.fsAtStart.file.json # << >>
  /\ q.cmd.id \notin IdsOf(Parse(q.fsAtStart.file.json))
  /\ q.out = <<"user_not_found">>

\* position of an id in the order randomUUID() generated the ids
IdOrder(id) == CHOOSE i \in 1..Len(IdPool) : IdPool[i] = id

\* C11: createUser appends exactly one user to the end of the stored array,
\* with the three given fields and a newly generated id, returns that user
\* and leaves the users stored before unchanged and in the same order;
\* listUsers afterwards returns the users in the order they were created.
C11_CreateAppendsOne ==
  LET q == proc[1] IN
  /\ (q.pc = "done" /\ q.cmd.cmd = "create" /\ q.ret = "user") =>
       /\ q.retUser = User(q.newId, q.cmd.firstName, q.cmd.lastName,
                           Number(q.cmd.ageStr))
       /\ q.newId \notin IdsOf(Parse(q.fileAtRead.json))
       /\ file.state = "json"
       /\ Parse(file.json) = Append(Parse(q.fileAtRead.json), q.retUser)
       /\ file.json = Append(q.fileAtRead.json, Stringify(<<q.retUser>>)[1])
  /\ (q.pc = "done" /\ q.cmd.cmd = "read") =>
       /\ q.ret = "users"
       /\ q.users = Parse(file.json)
       /\ \A i, j \in 1..Len(q.users) :
            i < j => IdOrder(q.users[i].id) < IdOrder(q.users[j].id)

C11_Witness ==
  LET q == proc[1] IN
  /\ q.pc = "done"
  /\ q.cmd.cmd = "create"
  /\ q.ret = "user"
  /\ Len(q.fileAtRead.json) = 1
  /\ Len(file.json) = 2
  /\ file.json[2].id = q.newId

\* C12: deleteUser returns true exactly when a user with the id was stored
\* before the call; afterwards no stored user has that id, and the users
\* with other ids are still stored, unchanged and in the same order.
C12_DeleteRemovesOnlyThatUser ==
  LET q == proc[1] IN
  (q.pc = "done" /\ q.cmd.cmd = "delete") =>
    LET old == Parse(q.fileAtRead.json) IN
    /\ q.ret \in {"true", "false"}
    /\ q.ret = "true" <=> q.cmd.id \in IdsOf(old)
    /\ file.state = "json"
    /\ q.cmd.id \notin StoredIds
    /\ Parse(file.json) = SelectSeq(old, LAMBDA u : u.id # q.cmd.id)
    /\ file.json = SelectSeq(q.fileAtRead.json, LAMBDA u : u.id # q.cmd.id)

C12_Witness ==
  LET q == proc[1] IN
  /\ q.pc = "done"
  /\ q.cmd.cmd = "delete"
  /\ q.ret = "true"
  /\ Len(q.fileAtRead.json) = 2
  /\ q.fileAtRead.json[1].id = q.cmd.id
  /\ Len(file.json) = 1

\* C18: creating a user and then deleting the user with the returned id
\* leaves the stored array as it was before the create, the same users in
\* the same order; between the two calls getUserById of that id returns the
\* created user.
C18_CreateDeleteRoundTrip ==
  LET q == proc[1] IN
  /\ (q.pc = "done" /\ q.cmd.cmd = "get" /\ q.session.stage = "created") =>
       /\ q.ret = "user"
       /\ q.retUser = q.session.user
       /\ q.out = <<"found">>
  /\ (q.pc = "done" /\ q.cmd.cmd = "delete" /\ q.session.stage = "got") =>
       /\ q.ret = "true"
       /\ file = Json(q.session.before)

C18_Witness ==
  LET q == proc[1] IN
  /\ q.pc = "done"
  /\ q.cmd.cmd = "delete"
  /\ q.session.stage = "got"
  /\ Len(q.session.before) = 2
  /\ "lastName" \notin DOMAIN q.session.before[2]
  /\ file = Json(q.session.before)

(***************************************************************************)
(* Properties of the controller scripts.                                   *)
(***************************************************************************)
\* the current process is the script cmd and has ended with process.exit()
ScriptCompleted(cmd) ==
  /\ entry.prog = "script"
  /\ entry.cmd = cmd
  /\ pc = "exited"
  /\ exitCode = 0

\* how often a document carries the tag
TagCount(d, tag) == Cardinality({k \in 1..Len(d.tags) : d.tags[k] = tag})

\* C13: run on an empty collection, the create script inserts exactly the
\* four sample products, T-Shirt first and then Hoodie, Sneakers and Cap,
\* prints its completion message only after both inserts have completed,
\* and then exits with status 0.
C13_CreateSeedsFour ==
  (entry.prog = "script" /\ entry.cmd = "create" /\ collAtStart = << >>) =>
    /\ ~Has("unhandled_rejection")
    /\ Count("result") = 0 => coll = << >>
    /\ Count("result") = 1 => coll = <<TShirt>>
    /\ Count("result") = 2 => coll = <<TShirt>> \o ManyProducts
    /\ Has("added_products") => Count("result") = 2
    /\ (pc = "exited" /\ Has("connected")) =>
         /\ exitCode = 0
         /\ Has("added_products")
         /\ [i \in 1..Len(coll) |-> coll[i].name]
              = <<"T-Shirt", "Hoodie", "Sneakers", "Cap">>

C13_Witness ==
  /\ ScriptCompleted("create")
  /\ collAtStart = << >>
  /\ Len(coll) = 4
  /\ events[Len(events) - 1] = "added_products"

\* C14: after the update script has run, a product named T-Shirt has stock
\* 45, every product that carries the tag 'clothing' carries the tag 'sale'
\* exactly once, the products without the 'clothing' tag other than T-Shirt
\* are unchanged, and the number of products is unchanged.
C14_UpdateScript ==
  ScriptCompleted("update") =>
    /\ Len(coll) = Len(collAtStart)
    /\ \A i \in 1..Len(coll) :
         /\ coll[i].name = collAtStart[i].name
         /\ coll[i].name = "T-Shirt" => coll[i].stock = 45
         /\ HasTag(coll[i], "clothing") <=> HasTag(collAtStart[i], "clothing")
         /\ HasTag(coll[i], "clothing") => TagCount(coll[i], "sale") = 1
         /\ (~HasTag(collAtStart[i], "clothing") /\ coll[i].name # "T-Shirt")
              => coll[i] = collAtStart[i]

C14_Witness ==
  /\ ScriptCompleted("update")
  /\ \E i, j, k \in 1..Len(coll) :
       /\ coll[i].name = "T-Shirt"
       /\ collAtStart[i].stock # 45
       /\ coll[i].stock = 45
       /\ HasTag(coll[j], "clothing")
       /\ ~HasTag(collAtStart[j], "sale")
       /\ HasTag(coll[j], "sale")
       /\ ~HasTag(coll[k], "clothing")
       /\ coll[k].name # "T-Shirt"

\* C15: after the delete script has run, the collection holds no product
\* named Cap and no product whose stock is less than or equal to 0, and
\* every product with another name and a stock greater than 0 is still
\* there, unchanged.
C15_DeleteScript ==
  ScriptCompleted("delete") =>
    /\ "Cap" \notin NamesOf(coll)
    /\ \A i \in 1..Len(coll) : coll[i].stock > 0
    /\ coll = SelectSeq(collAtStart,
                        LAMBDA d : d.name # "Cap" /\ d.stock > 0)

C15_Witness ==
  /\ ScriptCompleted("delete")
  /\ "Cap" \in NamesOf(collAtStart)
  /\ \E i \in 1..Len(collAtStart) :
       collAtStart[i].name # "Cap" /\ collAtStart[i].stock = 0
  /\ Len(coll) >= 2
  /\ Len(coll) = Len(collAtStart) - 2

\* C19 as claimed: the update script is idempotent: run a second time right
\* after it has completed, it leaves the collection exactly as the first run
\* left it.
C19_UpdateIdempotent ==
  (again /\ (ScriptCompleted("update") \/ ScriptCompleted("update0"))) =>
    coll = collAtStart

\* C19, amended: the second run leaves every name, stock, price, tag and the
\* order of the products as the first run left them; under the schema with
\* updatedAt: false the collection is exactly the same, under the schema
\* with timestamps: true the second run sets updatedAt of T-Shirt and of
\* every 'clothing' product anew and changes nothing else.
C19_UpdateIdempotentButUpdatedAt ==
  (again /\ (ScriptCompleted("update") \/ ScriptCompleted("update0"))) =>
    /\ WithoutUpdatedAt(coll) = WithoutUpdatedAt(collAtStart)
    /\ entry.cmd = "update" => coll = collAtStart
    /\ entry.cmd = "update0" =>
         \A i \in 1..Len(coll) :
           coll[i].updatedAt # collAtStart[i].updatedAt
             <=> (coll[i].name = "T-Shirt" \/ HasTag(coll[i], "clothing"))

C19_Witness ==
  /\ again
  /\ ScriptCompleted("update")
  /\ coll = collAtStart
  /\ \E i, j \in 1..Len(coll) :
       /\ coll[i].name = "T-Shirt"
       /\ coll[i].stock = 45
       /\ i # j
       /\ TagCount(coll[j], "sale") = 1

(***************************************************************************)
(* Properties of the entry points that only read.                          *)
(***************************************************************************)
\* the users users.json held when the command of the process was started
UsersAtStart(q) ==
  IF q.fsAtStart.file.state = "json" THEN Parse(q.fsAtStart.file.json)
  ELSE << >>

\* C20: the read script and the list command only read: the collection
\* during and after their run is the collection before it; listUsers and
\* getUserById leave the stored array of users unchanged: they do not call
\* writeUsers, a users.json that existed keeps its text, and one that did
\* not exist is created holding no user.
C20_ReadersOnlyRead ==
  LET q == proc[1] IN
  /\ ((entry.prog = "script" /\ entry.cmd = "read")
        \/ (entry.prog = "cli" /\ entry.cmd = "list")) => coll = collAtStart
  /\ (q.cmd.cmd \in {"read", "get"} /\ q.pc \in {"done", "failed"}) =>
       /\ ~q.wrote
       /\ q.fsAtStart.file.state = "json" => file = q.fsAtStart.file
       /\ q.pc = "done" =>
            /\ file.state = "json"
            /\ Parse(file.json) = UsersAtStart(q)

C20_Witness ==
  LET q == proc[1] IN
  /\ ScriptCompleted("read")
  /\ Count("result") = 4
  /\ Len(coll) = 4
  /\ coll = collAtStart
  /\ q.pc = "done"
  /\ q.cmd.cmd = "read"
  /\ Len(q.users) = 2
  /\ file = q.fsAtStart.file

(***************************************************************************)
(* Properties of the Book controller.                                      *)
(***************************************************************************)
\* the last call was one of the functions that look a book up by its id
ByIdCall == bookCall.fn \in {"getBookById", "updateBook", "deleteBook"}

Started == \E i \in 1..Len(npm.log) : npm.log[i] = "start"

\* C16: npm start runs prestart, which runs the build: prebuild deletes
\* dist, tsc compiles into dist, and only then start runs the compiled app;
\* start never runs before the build of the same invocation has completed,
\* and every file of the dist that is started was written by that build.
C16_StartFromCleanBuild ==
  /\ npm.pc \in {"start", "running"} =>
       npm.log \in { <<"prestart", "prebuild", "build">>,
                     <<"prestart", "prebuild", "build", "start">> }
  /\ Started =>
       /\ npm.cmd = "start"
       /\ npm.log = <<"prestart", "prebuild", "build", "start">>
       /\ \A d \in dist : d.build = npm.build
       /\ [file |-> "app", build |-> npm.build] \in dist
       /\ npm.pc = "running" => {d.file : d \in dist} = sources
  /\ \A i \in 1..Len(npm.log) :
       npm.log[i] = "build_failed" => ~Started /\ i = Len(npm.log)

C16_Witness ==
  /\ npm.pc = "running"
  /\ npm.build = 2
  /\ [file |-> "old", build |-> 1] \in npm.found
  /\ sources = {"app"}
  /\ dist = {[file |-> "app", build |-> 2]}

(***************************************************************************)
(* Properties of the read script followed by the delete script.            *)
(***************************************************************************)
\* the documents of a sequence, as a set
DocsOf(c) == {c[i] : i \in 1..Len(c)}

\* C21: the in-stock query of the read script and the out-of-stock deletion
\* of the delete script partition the collection: every product is either
\* listed as in stock or removed, never both and never neither; and a
\* product the read script listed as in stock that is not named Cap is
\* still stored, unchanged, all through the delete run that follows.
C21_InStockSurvivesDelete ==
  /\ FindInStock(coll) = DeleteManyOutOfStock(coll)
  /\ \A d \in DocsOf(coll) :
       (d \in DocsOf(FindInStock(coll))) # (d \notin DocsOf(DeleteManyOutOfStock(coll)))
  /\ (entry.prog = "script" /\ entry.cmd = "delete" /\ listed.after) =>
       /\ listed.docs = FindInStock(collAtStart)
       /\ \A d \in DocsOf(listed.docs) : d.name # "Cap" => d \in DocsOf(coll)
       /\ ScriptCompleted("delete") =>
            coll = SelectSeq(listed.docs, LAMBDA d : d.name # "Cap")

C21_Witness ==
  /\ ScriptCompleted("delete")
  /\ listed.after
  /\ \E d \in DocsOf(listed.docs) : d.name = "Cap"
  /\ \E d \in DocsOf(listed.docs) : d.name # "Cap" /\ d \in DocsOf(coll)
  /\ \E d \in DocsOf(collAtStart) : d.stock = 0 /\ d \notin DocsOf(listed.docs)
  /\ Len(coll) = Len(collAtStart) - 2

\* C22: when the create script runs while a product named T-Shirt is
\* stored, its first insert is rejected by the unique index on name and the
\* script stops there: insertMany is never issued, none of Hoodie, Sneakers
\* and Cap is inserted by the run, the completion message is not printed,
\* the collection stays as the run found it, and the process ends on the
\* rejection with status 1.
C22_CreateStopsOnDuplicate ==
  (entry.prog = "script" /\ entry.cmd = "create"
     /\ "T-Shirt" \in NamesOf(collAtStart)) =>
    /\ coll = collAtStart
    /\ step = 1
    /\ Count("query") <= 1
    /\ Count("result") = 0
    /\ ~Has("added_products")
    /\ exitCode # 0
    /\ (pc = "awaiting") => ENABLED ScriptRejected /\ ~ENABLED ScriptResolve
    /\ (pc = "exited" /\ Has("query")) =>
         Has("unhandled_rejection") /\ exitCode = 1

C22_Witness ==
  /\ entry.prog = "script" /\ entry.cmd = "create"
  /\ "T-Shirt" \in NamesOf(collAtStart)
  /\ {"Hoodie", "Sneakers", "Cap"} \cap NamesOf(coll) = {}
  /\ pc = "exited"
  /\ events = <<"connected", "query", "unhandled_rejection">>
  /\ exitCode = 1

(***************************************************************************)
(* The CLI on the native driver.                                           *)
(***************************************************************************)
NativeNext ==
  \/ StartNative
  \/ StartNative7
  \/ DbConnect
  \/ DbConnectOk
  \/ DbConnectErr
  \/ DbImportIife
  \/ IifeConnected
  \/ IifeConnectErr
  \/ NativeParse
  \/ NativeFulfilled

SpecNative == Init /\ [][NativeNext]_vars

\* how many documents of the collection have the name
NameCount(c, name) == Cardinality({i \in 1..Len(c) : c[i].name = name})

\* the current process is the native-driver CLI running the command
Native(cmd) == entry.prog \in {"native", "native7"} /\ entry.cmd = cmd

\* C23: the native-driver CLI declares no uniqueness: a completed add has
\* inserted one more product, also when the name was already stored; an
\* update or a delete changes at most one product; a delete that succeeds
\* takes exactly one product of that name away and one that reports
\* 'Product not found' none; so the products stored under a name are the
\* adds reported for it less the deletes, and delete on a name added n
\* times reports 'Product not found' only after n deletes have succeeded.
C23_NativeNoUniqueness ==
  /\ (Native("add") /\ Has("result")) =>
       /\ Has("added")
       /\ coll = Append(collAtStart,
                        Doc(entry.name, ParseInt(entry.stockStr),
                            ParseFloat(entry.priceStr), << >>, NoDate))
       /\ NameCount(coll, entry.name) = NameCount(collAtStart, entry.name) + 1
  /\ Native("update") =>
       /\ Len(coll) = Len(collAtStart)
       /\ Cardinality({i \in 1..Len(coll) : coll[i] # collAtStart[i]}) <= 1
       /\ Has("product_not_found") => coll = collAtStart
  /\ Native("delete") =>
       /\ Has("deleted") =>
            /\ Len(coll) = Len(collAtStart) - 1
            /\ NameCount(coll, entry.name) = NameCount(collAtStart, entry.name) - 1
            /\ \A n \in Names \ {entry.name} :
                 NameCount(coll, n) = NameCount(collAtStart, n)
       /\ ~Has("deleted") => coll = collAtStart
       /\ Has("product_not_found") => NameCount(collAtStart, entry.name) = 0
       /\ Has("result") => Has("deleted") # Has("product_not_found")
  /\ \A n \in Names : NameCount(coll, n) = owed[n]

C23_Witness ==
  /\ Native("delete")
  /\ Has("deleted")
  /\ NameCount(collAtStart, entry.name) = 2
  /\ NameCount(coll, entry.name) = 1
  /\ owed[entry.name] = 1

(***************************************************************************)
(* The entry points on the db.ts that does not await its connection.       *)
(***************************************************************************)
IifeNext ==
  \/ StartIifeScript
  \/ DbImportIife
  \/ IifeConnected
  \/ IifeConnectErr
  \/ IifeScriptQuery
  \/ IifeScriptResolve
  \/ IifeScriptRejected
  \/ IifeBufferTimeout
  \/ IifeScriptExit

SpecIife == Init /\ [][IifeNext]_vars

\* C24: with the db.ts that connects inside an async function nobody awaits,
\* importing db first does not put the connection before the queries: the
\* entry point issues its first query while the connection is pending, the
\* outcome of the connection is known only after that query, and a failed
\* connection ends the process with status 1 with a query already issued.
C24_QueryBeforeConnection ==
  UsesIife(entry) =>
    /\ (pc = "body" /\ step = 1) =>
         /\ conn = "pending"
         /\ ENABLED (IifeScriptQuery \/ NativeParse)
    /\ \A i \in 1..Len(events) :
         events[i] \in {"connected", "connection_error"} =>
           \E j \in 1..(i - 1) : events[j] = "query"
    /\ conn \in {"open", "failed"} => Has("query")
    /\ Has("connection_error") =>
         /\ events = <<"query", "connection_error", "exit">>
         /\ exitCode = 1
         /\ coll = collAtStart

C24_Witness ==
  /\ entry.prog = "script_iife"
  /\ conn = "failed"
  /\ events = <<"query", "connection_error", "exit">>
  /\ exitCode = 1
  /\ pc = "exited"

====
